---- MODULE Spec2Model ----
(***************************************************************************)
(* THOMAS temperature / humidity logger (Arduino Uno).                     *)
(*                                                                         *)
(* The repository carries two revisions of the same sketch:                *)
(*   "ino"  - src/THOMAS.ino                                               *)
(*   "p0"   - src/unnamed/part_000                                         *)
(* Both are modelled; the variable revision says which one is running.     *)
(*                                                                         *)
(* Text is modelled as a sequence of one-character strings.                *)
(***************************************************************************)
EXTENDS Integers, Sequences, FiniteSets, TLC

VARIABLES
    revision,            \* which revision of the sketch is flashed
    mode,                \* Modes mode
    state,               \* States state
    millis,              \* value returned by millis() in the current pass
    lastPressTime,       \* unsigned long lastPressTime
    idolingTime,         \* unsigned long idolingTime
    logCooldown,         \* unsigned long logCooldown
    preventDoubleClick,  \* unsigned long preventDoubleClick
    refTime,             \* refTime (unsigned long in p0, unsigned int in ino)
    numBytes,            \* unsigned long numBytes
    timeSeconds,         \* timeSeconds
    humidity,            \* float humidity   (hundredths, or NaN)
    temperature,         \* float temperature (hundredths, or NaN)
    numDataPoints,       \* unsigned long numDataPoints
    dataFile,            \* File dataFile: [open, name, unflushed]
    files,               \* names of the files on the card other than time.txt
    timeTxt,             \* bytes of time.txt on the card, or NoFile
    rtc,                 \* the DS3231: [base, lostPower]
    led,                 \* level on ledPin
    backlight,           \* LCD backlight
    offCmd,              \* lcd.noBacklight() was called in the last pass
    pc,                  \* "loop": between passes of loop(); "probe": inside
                         \* the while(true) of the collision probe
    beginPath,           \* what the last pass of loop() did in defineDateFile
    probeCount,          \* probe iterations of the last defineDateFile call
    adjustArgs,          \* argument of the last rtc.adjust call, or NoAdjust
    opened,              \* the clock readings and the name of the last
                         \* rtc-derived sd.open
    flushed,             \* whether the last pass called dataFile.flush()
    savedName,           \* char savedName[64] of the scan in progress
    scan,                \* locals of the scan: format, counters, date
    parseDone,           \* the scan loop has run to i == len
    pressedAt,           \* millis() of the latest pass that read LOW after a
                         \* pass that read HIGH, -1 before the first
    upSince              \* millis() of the pass since which digitalRead has
                         \* returned HIGH in every pass, -1 after a pass that
                         \* read LOW (followed while the menu is studied)

vars == << revision, mode, state, millis, lastPressTime, idolingTime,
           logCooldown, preventDoubleClick, refTime, numBytes, timeSeconds,
           humidity, temperature, numDataPoints, dataFile, files, timeTxt,
           rtc, led, backlight, offCmd, pc, beginPath, probeCount,
           adjustArgs, opened, flushed, savedName, scan, parseDone,
           pressedAt, upSince >>

-----------------------------------------------------------------------------
(* Bounds *)

MaxLen == 11          \* longest recovery record drawn for the scan
MaxSuffix == 2        \* largest __N suffix among the files put on the card
MaxPasses == 7        \* passes of loop() followed after power-up
MaxSamples == 3       \* log ticks followed

-----------------------------------------------------------------------------
(* enum Modes *)
OFF == 0
MODE_SELECT == 1
TEMP_HUMIDITY_VIEW == 2
DURATION_BYTES_VIEW == 3

(* enum States *)
CHECK_RTC == 0
ERROR_RTC_LOST_POWER == 1
DEFAULT_STATE == 2
READY_FOR_BUTTON_INPUT == 3
BUTTON_PRESSED == 4
ERROR_DATAFILE_FAILED == 5
DONE_WORKING_MAY_REMOVEsd == 6
ERROR_TIME_TXT_NOT_FOUND == 7
ERROR_TIME_TXT_FORMAT_INCORRECT == 8

Revisions == {"ino", "p0"}

NoFile == <<"<absent>">>
NoAdjust == [none |-> TRUE]

-----------------------------------------------------------------------------
(* Characters *)

Digits == {"0", "1", "2", "3", "4", "5", "6", "7", "8", "9"}

DigitVal(c) ==
    CASE c = "0" -> 0 [] c = "1" -> 1 [] c = "2" -> 2 [] c = "3" -> 3
      [] c = "4" -> 4 [] c = "5" -> 5 [] c = "6" -> 6 [] c = "7" -> 7
      [] c = "8" -> 8 [] c = "9" -> 9

\* isAlpha(c): the letters among the bytes the model draws
isAlpha(c) == c \in {"a", "T"}

\* atoi on a char[3] field: optional sign, then digits up to the first
\* non-digit
atoiDigits(s) ==
    IF Len(s) = 0 \/ s[1] \notin Digits THEN 0
    ELSE IF Len(s) = 1 \/ s[2] \notin Digits THEN DigitVal(s[1])
    ELSE 10 * DigitVal(s[1]) + DigitVal(s[2])

atoi(s) ==
    IF s[1] = "-" THEN 0 - atoiDigits(Tail(s))
    ELSE IF s[1] = "+" THEN atoiDigits(Tail(s))
    ELSE IF s[1] = " " THEN atoiDigits(Tail(s))
    ELSE atoiDigits(s)

-----------------------------------------------------------------------------
(* defineDateFile: the scan of savedName *)

\* char date[7][3] = {"00", ...}; int format = 0, concurrentUnderlines = 0,
\* concurrentNumbers = 0
ScanInit ==
    [ format |-> 0, concurrentUnderlines |-> 0, concurrentNumbers |-> 0,
      date |-> [x \in 0..6 |-> <<"0", "0">>], err |-> FALSE ]

\* switch (format) on the first digit after a single underscore
NextFormat(format) ==
    CASE format = 0 -> 1
      [] format = 1 -> 2
      [] format = 2 -> 4
      [] format = 4 -> 6
      [] format = 6 -> 7
      [] OTHER -> format

\* A mutant of DoubleUnderscoreFormat: the suffix is also taken after mm
DoubleUnderscoreFormatAfterMinute(format) ==
    CASE format = 2 -> 3
      [] format = 4 -> 5
      [] format = 6 -> 7
      [] OTHER -> -1

\* if (concurrentUnderlines == 2): the format after a second underscore,
\* -1 for ERROR_TIME_TXT_FORMAT_INCORRECT
DoubleUnderscoreFormat(format) ==
    CASE format = 2 -> 3
      [] format = 4 -> 5
      [] OTHER -> -1

\* int x = format - (format > 3) - (format > 5); 3 and 5 go to field 6
FieldIndex(format) ==
    IF format = 3 \/ format = 5 THEN 6
    ELSE format - (IF format > 3 THEN 1 ELSE 0) - (IF format > 5 THEN 1 ELSE 0)

\* if (date[x][1] != '0') date[x][0] = date[x][1];  date[x][1] = c
PutDigit(field, c) ==
    << IF field[2] # "0" THEN field[2] ELSE field[1], c >>

\* the skip of '\n' and '\r' at the head of the loop body exists in p0 only
SkipsLineEnd(rev, c) == rev = "p0" /\ c \in {"\n", "\r"}

\* concurrentNumbers = 0 on an underscore exists in p0 only
DigitCountAfterUnderscore(rev, n) == IF rev = "p0" THEN 0 ELSE n

Fail(s) == [s EXCEPT !.err = TRUE]

\* one pass of the body of for (int i = 0; i < len; ++i) on c = savedName[i]
ScanByte(rev, s, c, i) ==
    IF SkipsLineEnd(rev, c) THEN s
    ELSE IF isAlpha(c) /\ c # "_" THEN Fail(s)
    ELSE IF c = "_" THEN
        LET cu == s.concurrentUnderlines + 1
            s1 == [s EXCEPT !.concurrentUnderlines = cu,
                            !.concurrentNumbers =
                                DigitCountAfterUnderscore(rev, @)]
        IN  IF i = 0 THEN Fail(s1)
            ELSE IF cu = 2 THEN
                IF DoubleUnderscoreFormat(s.format) = -1 THEN Fail(s1)
                ELSE [s1 EXCEPT !.format = DoubleUnderscoreFormat(s.format)]
            ELSE IF cu > 2 THEN Fail(s1)
            ELSE s1
    ELSE
        LET cn == s.concurrentNumbers + 1
            s1 == [s EXCEPT !.concurrentNumbers = cn]
        IN  IF cn > 2 THEN Fail(s1)
            ELSE
                LET s2 == IF s1.concurrentUnderlines = 1
                          THEN [s1 EXCEPT !.format = NextFormat(@),
                                          !.concurrentUnderlines = 0]
                          ELSE s1
                    x == FieldIndex(s2.format)
                IN  [s2 EXCEPT !.date[x] = PutDigit(@, c)]

\* the whole for loop over a record already read into savedName
RECURSIVE ScanFrom(_, _, _, _)
ScanFrom(rev, s, name, i) ==
    IF s.err \/ i >= Len(name) THEN s
    ELSE ScanFrom(rev, ScanByte(rev, s, name[i + 1], i), name, i + 1)

Scan(rev, name) == ScanFrom(rev, ScanInit, name, 0)

\* DateTime(atoi(date[2]) + 2000, atoi(date[0]), atoi(date[1]),
\*          atoi(date[3]), atoi(date[4]), atoi(date[5])):
\* uint16_t year, uint8_t for the rest
AdjustArgs(date) ==
    [ year   |-> (atoi(date[2]) + 2000) % 65536,
      month  |-> atoi(date[0]) % 256,
      day    |-> atoi(date[1]) % 256,
      hour   |-> atoi(date[3]) % 256,
      minute |-> atoi(date[4]) % 256,
      second |-> atoi(date[5]) % 256 ]

-----------------------------------------------------------------------------
(* Text helpers *)

DigitChar(d) ==
    CASE d = 0 -> "0" [] d = 1 -> "1" [] d = 2 -> "2" [] d = 3 -> "3"
      [] d = 4 -> "4" [] d = 5 -> "5" [] d = 6 -> "6" [] d = 7 -> "7"
      [] d = 8 -> "8" [] d = 9 -> "9"

\* "%i" of a non-negative int
RECURSIVE Itoa(_)
Itoa(n) == IF n < 10 THEN << DigitChar(n) >>
           ELSE Itoa(n \div 10) \o << DigitChar(n % 10) >>

\* "%02d" of a non-negative int
Fmt02d(n) == IF n < 10 THEN << "0" >> \o Itoa(n) ELSE Itoa(n)

\* the extension of the output file: ".txt" in p0, ".dat" in ino
Ext(rev) == IF rev = "p0" THEN << ".", "t", "x", "t" >>
            ELSE << ".", "d", "a", "t" >>

\* timeFile.readBytesUntil('\n', savedName, sizeof(savedName) - 1)
RECURSIVE ReadBytesUntil(_, _, _)
ReadBytesUntil(bytes, term, max) ==
    IF Len(bytes) = 0 \/ max = 0 \/ Head(bytes) = term THEN << >>
    ELSE << Head(bytes) >> \o ReadBytesUntil(Tail(bytes), term, max - 1)

\* snprintf(fileName, sizeof(fileName), "%s__%i.txt", savedName, i)
ProbeName(rev, base, i) == base \o << "_", "_" >> \o Itoa(i) \o Ext(rev)

\* snprintf(savedName, sizeof(savedName), "%s.txt", savedName)
PlainName(rev, base) == base \o Ext(rev)

-----------------------------------------------------------------------------
(* The clock: rtc.now() as seconds since 2000-01-01 00:00:00, and the      *)
(* DateTime conversions of the calls rtc.now().month() ... .unixtime()     *)

SECONDS_FROM_1970_TO_2000 == 946684800

DaysInMonth(m, yOff) ==
    CASE m = 2 -> IF yOff % 4 = 0 THEN 29 ELSE 28
      [] m \in {4, 6, 9, 11} -> 30
      [] OTHER -> 31

DaysInYear(yOff) == IF yOff % 4 = 0 THEN 366 ELSE 365

RECURSIVE YearOf(_, _)
YearOf(days, yOff) ==
    IF days < DaysInYear(yOff) THEN [yOff |-> yOff, days |-> days]
    ELSE YearOf(days - DaysInYear(yOff), yOff + 1)

RECURSIVE MonthOf(_, _, _)
MonthOf(days, m, yOff) ==
    IF m >= 12 \/ days < DaysInMonth(m, yOff) THEN [m |-> m, days |-> days]
    ELSE MonthOf(days - DaysInMonth(m, yOff), m + 1, yOff)

\* the fields of the DateTime that rtc.now() returns at second t
DateTimeOf(t) ==
    LET y  == YearOf(t \div 86400, 0)
        mo == MonthOf(y.days, 1, y.yOff)
    IN  [ year   |-> 2000 + y.yOff,
          month  |-> mo.m,
          day    |-> mo.days + 1,
          hour   |-> (t \div 3600) % 24,
          minute |-> (t \div 60) % 60,
          second |-> t % 60 ]

RECURSIVE DaysBeforeMonth(_, _)
DaysBeforeMonth(m, yOff) ==
    IF m <= 1 THEN 0
    ELSE DaysBeforeMonth(m - 1, yOff) + DaysInMonth(m - 1, yOff)

\* the second at which the clock stands after rtc.adjust(dt)
SecondsOf(dt) ==
    LET yOff == dt.year - 2000
        days == (dt.day - 1) + DaysBeforeMonth(dt.month, yOff)
                + 365 * yOff + (yOff + 3) \div 4
    IN  ((days * 24 + dt.hour) * 60 + dt.minute) * 60 + dt.second

\* a date the DS3231 keeps; its data sheet leaves the clock undefined after
\* any other entry
ValidDate(dt) ==
    /\ dt.year \in 2000 .. 2099
    /\ dt.month \in 1 .. 12
    /\ dt.day \in 1 .. DaysInMonth(dt.month, dt.year - 2000)
    /\ dt.hour \in 0 .. 23
    /\ dt.minute \in 0 .. 59
    /\ dt.second \in 0 .. 59

\* the second a clock set to dt stands at; an entry that is no date leaves
\* it at the start of the calendar
ClockAt(dt) == IF ValidDate(dt) THEN SecondsOf(dt) ELSE 0

\* rtc.now() in the pass that runs at millis() = ms
Now(r, ms) == r.base + ms \div 1000

\* rtc.now().unixtime()
UnixTime(t) == t + SECONDS_FROM_1970_TO_2000

\* the store into refTime: unsigned long in p0, unsigned int (16 bit) in ino
RefTimeOf(rev, unix) == IF rev = "p0" THEN unix ELSE unix % 65536

\* timeSeconds = rtc.now().unixtime() - refTime, stored into an unsigned
\* long in p0 and into an unsigned int (16 bit) in ino
ElapsedOf(rev, unix, ref) ==
    IF rev = "p0" THEN unix - ref ELSE (unix - ref) % 65536

\* "%02d_%02d_%02d_%02d_%02d.txt" of month, day, year - 2000, hour, minute
ClockName(rev, month, day, year, hour, minute) ==
    Fmt02d(month) \o << "_" >> \o Fmt02d(day) \o << "_" >>
        \o Fmt02d(year - 2000) \o << "_" >> \o Fmt02d(hour) \o << "_" >>
        \o Fmt02d(minute) \o Ext(rev)

-----------------------------------------------------------------------------
(* Durations, pin levels, sensor readings *)

IDOLING_DURATION == 20000
REMAIN_IDOL_DURATION == 30000
LOG_FREQUENCY == 5000
COUNTER_FAKE_BUTTON_RELEASE_DURATION == 50
RTC_WARNING_DURATION == 7000
HEADER_BYTES == 54      \* the 52 characters of the header row and "\r\n"
NAME_BYTES == 63        \* sizeof(savedName) - 1

\* #define MENUE_SELECT_DURATION 2000 (p0), 1000 (ino)
MENUE_SELECT_DURATION(rev) == IF rev = "p0" THEN 2000 ELSE 1000

\* The identifier DEFAULT that p0 assigns in offMode.  p0 renamed the
\* enumerator to DEFAULT_STATE, so the name is the macro of the AVR core
\* (Arduino.h, #define DEFAULT 1).
DEFAULT == 1

LOW == 0
HIGH == 1

\* a float of the DHT22: hundredths of a unit, or not-a-number
Reading(v) == [nan |-> FALSE, v |-> v]
NaN == [nan |-> TRUE, v |-> 0]
isnan(a) == a.nan

\* a != b on floats: a NaN differs from everything, itself included
FloatNe(a, b) == a.nan \/ b.nan \/ a.v # b.v

\* (millis() - since) > d and < d on unsigned long.  The operands stay far
\* below 2^31, so a difference that wraps is above every duration.
ElapsedOver(now, since, d) == IF now >= since THEN now - since > d ELSE TRUE
ElapsedUnder(now, since, d) == IF now >= since THEN now - since < d ELSE FALSE

\* bytes written by dataFile.print(unsigned long) and by
\* dataFile.print(float), which prints two decimals
PrintLenUnsigned(n) == Len(Itoa(n))
PrintLenFloat(a) ==
    (IF a.v < 0 THEN 1 ELSE 0)
        + Len(Itoa((IF a.v < 0 THEN 0 - a.v ELSE a.v) \div 100)) + 3

ClosedFile == [open |-> FALSE, name |-> << >>, unflushed |-> 0]
NoOpen == [none |-> TRUE]
TimeTxtName == << "t", "i", "m", "e", ".", "t", "x", "t" >>

\* sd.exists(name)
sdExists(g, name) ==
    \/ name \in g.files
    \/ name = TimeTxtName /\ g.timeTxt # NoFile

-----------------------------------------------------------------------------
(* defineDateFile: the name of the output file *)

\* while (true) { ++i; ... if (sd.exists(fileName)) break; } of p0 and
\* if (!SD.exists(fileName)) break; of ino: the i the loop leaves with, 0
\* when it never leaves
ProbeStop(rev, base, fs) ==
    LET hit(i) == IF rev = "p0" THEN ProbeName(rev, base, i) \in fs
                  ELSE ProbeName(rev, base, i) \notin fs
        S == { i \in 1 .. (Cardinality(fs) + MaxSuffix + 1) : hit(i) }
    IN  IF S = {} THEN 0
        ELSE CHOOSE i \in S : \A j \in S : i <= j

\* A mutant of CollisionBranch: the error is raised for the formats that
\* already carry a suffix, as the comments of the branch say
CollisionBranchBySuffix(exists, format) ==
    IF exists /\ format # 3 /\ format # 5 THEN "probe"
    ELSE IF exists THEN "error"
    ELSE "plain"

\* if (sd.exists(savedName) && format != 2 && format != 4) ... else if
\* (sd.exists(savedName)) ... else ...
CollisionBranch(exists, format) ==
    IF exists /\ format # 2 /\ format # 4 THEN "probe"
    ELSE IF exists THEN "error"
    ELSE "plain"

\* A mutant of RemoveTimeTxt: the record is left on the card
KeepTimeTxt(t) == t

\* sd.remove("time.txt")
RemoveTimeTxt(t) == NoFile

\* dataFile = sd.open(name, FILE_WRITE): the file is created when absent
sdOpen(g, name, ok) ==
    IF ok
    THEN [g EXCEPT !.dataFile = [open |-> TRUE, name |-> name,
                                 unflushed |-> 0],
                   !.files = @ \cup {name}]
    ELSE [g EXCEPT !.dataFile = ClosedFile]

\* rtc.adjust(DateTime(...)): the clock stands at args and its lost-power
\* flag is cleared; then, in p0 only, refTime = rtc.now().unixtime()
Adjust(rev, g, args) ==
    [g EXCEPT !.rtc = [base |-> ClockAt(args) - g.millis \div 1000,
                       lostPower |-> FALSE],
              !.adjustArgs = args,
              !.refTime = IF rev = "p0"
                          THEN RefTimeOf(rev, UnixTime(ClockAt(args)))
                          ELSE @]

\* the collision probe, then sd.open and sd.remove("time.txt"); stop is the
\* index the probe loop leaves with (0: it never leaves)
ProbeAndOpen(rev, g, in, name, stop) ==
    IF stop = 0
    THEN [g EXCEPT !.pc = "probe", !.beginPath = "probing"]
    ELSE [sdOpen(g, ProbeName(rev, name, stop), in.openOk)
            EXCEPT !.timeTxt = RemoveTimeTxt(@),
                   !.probeCount = stop,
                   !.beginPath = "recovery"]

\* what follows rtc.adjust in the recovery branch
NameAndOpen(rev, g, in, name, format) ==
    CASE CollisionBranch(sdExists(g, name), format) = "probe" ->
            ProbeAndOpen(rev, g, in, name, ProbeStop(rev, name, g.files))
      [] CollisionBranch(sdExists(g, name), format) = "error" ->
            [g EXCEPT !.state = ERROR_TIME_TXT_FORMAT_INCORRECT,
                      !.beginPath = "ambiguous"]
      [] OTHER ->
            [sdOpen(g, PlainName(rev, name), in.openOk)
               EXCEPT !.timeTxt = RemoveTimeTxt(@),
                      !.beginPath = "recovery"]

\* the recovery branch once the scan of savedName has ended in s
Recover(rev, g, in, name, s) ==
    IF s.err
    THEN [g EXCEPT !.state = ERROR_TIME_TXT_FORMAT_INCORRECT,
                   !.beginPath = "malformed"]
    ELSE NameAndOpen(rev, Adjust(rev, g, AdjustArgs(s.date)), in, name,
                     s.format)

\* the branch of a clock that kept power: the name is built from five
\* rtc.now() calls (month, day, year, hour, minute), the clock standing at
\* t when the earliest is made; in.adv[k] says whether it has stepped to
\* the next second when the k-th argument is read
ClockPath(rev, g, in, t) ==
    [sdOpen(g, ClockName(rev, DateTimeOf(t + in.adv[1]).month,
                              DateTimeOf(t + in.adv[2]).day,
                              DateTimeOf(t + in.adv[3]).year,
                              DateTimeOf(t + in.adv[4]).hour,
                              DateTimeOf(t + in.adv[5]).minute),
            in.openOk)
       EXCEPT !.opened = [t |-> t],
              !.beginPath = "clock"]

\* defineDateFile().  in.openOk: whether sd.open succeeds
defineDateFile(rev, g, in) ==
    IF g.rtc.lostPower /\ ~sdExists(g, TimeTxtName) THEN
        [g EXCEPT !.state = ERROR_TIME_TXT_NOT_FOUND,
                  !.beginPath = "notfound"]
    ELSE IF g.rtc.lostPower THEN
        Recover(rev, g, in, ReadBytesUntil(g.timeTxt, "\n", NAME_BYTES),
                Scan(rev, ReadBytesUntil(g.timeTxt, "\n", NAME_BYTES)))
    ELSE ClockPath(rev, g, in, Now(g.rtc, g.millis))

-----------------------------------------------------------------------------
(* log() *)

\* bytes of one record: time, ",", temperature, ",", humidity, "\r\n"
RecordBytes(g) ==
    PrintLenUnsigned(g.timeSeconds) + 1 + PrintLenFloat(g.temperature) + 1
        + PrintLenFloat(g.humidity) + 2

\* A mutant of WriteRecord: the byte counter is restarted at every record
WriteRecordRestart(g) ==
    [g EXCEPT !.numBytes = RecordBytes(g), !.dataFile.unflushed = @ + 1]

\* numBytes += dataFile.print(timeSeconds) ... numBytes += dataFile.println()
WriteRecord(g) ==
    [g EXCEPT !.numBytes = @ + RecordBytes(g), !.dataFile.unflushed = @ + 1]

\* the tail of log(): if (isnan(humidity) || isnan(temperature)) return;
\* then the record
WriteUnlessNan(g) ==
    IF isnan(g.humidity) \/ isnan(g.temperature) THEN g ELSE WriteRecord(g)

\* log().  in.hum, in.temp: what dht.readHumidity() and
\* dht.readTemperature() return.  p0 returns at once when both equal the
\* stored values.
log(rev, g, in) ==
    IF rev = "p0"
       /\ ~(FloatNe(in.hum, g.humidity) \/ FloatNe(in.temp, g.temperature))
    THEN g
    ELSE WriteUnlessNan(
            [g EXCEPT !.humidity = in.hum,
                      !.temperature = in.temp,
                      !.timeSeconds =
                          ElapsedOf(rev, UnixTime(Now(g.rtc, g.millis)),
                                    g.refTime)])

-----------------------------------------------------------------------------
(* screenIdle() *)

\* A mutant of IdleBacklight: no upper threshold
IdleBacklightEveryPass(g) ==
    IF ElapsedOver(g.millis, g.idolingTime, IDOLING_DURATION)
    THEN [g EXCEPT !.backlight = FALSE, !.offCmd = TRUE]
    ELSE g

\* lcd.noBacklight() between the two thresholds
IdleBacklight(g) ==
    IF ElapsedOver(g.millis, g.idolingTime, IDOLING_DURATION)
       /\ ElapsedUnder(g.millis, g.idolingTime, REMAIN_IDOL_DURATION)
    THEN [g EXCEPT !.backlight = FALSE, !.offCmd = TRUE]
    ELSE g

\* p0 only: if (millis() - idolingTime < IDOLING_DURATION && state == 2)
\*              state = 4;
IdleAwake(rev, g) ==
    IF rev = "p0" /\ ElapsedUnder(g.millis, g.idolingTime, IDOLING_DURATION)
       /\ g.state = 2
    THEN [g EXCEPT !.state = 4]
    ELSE g

\* the button part of screenIdle
IdleButton(rev, g, in) ==
    IF in.button = LOW /\ (g.state = 2 \/ g.state = 4) THEN
        IF ElapsedUnder(g.millis, g.idolingTime, IDOLING_DURATION)
           /\ g.state = 4 /\ (rev = "ino" \/ g.mode # MODE_SELECT)
        THEN [g EXCEPT !.mode = MODE_SELECT,
                       !.lastPressTime = g.millis,
                       !.state = IF rev = "p0" THEN 0 ELSE 3]
        ELSE [g EXCEPT !.idolingTime = g.millis,
                       !.backlight = TRUE,
                       !.state = 3]
    ELSE IF in.button = HIGH /\ g.state = 3 THEN [g EXCEPT !.state = 4]
    ELSE g

screenIdle(rev, g, in) == IdleButton(rev, IdleAwake(rev, IdleBacklight(g)), in)

-----------------------------------------------------------------------------
(* offMode() *)

\* if (state == CHECK_RTC) { ... } at the head of offMode (p0 only)
CheckRtc(rev, g) ==
    IF rev = "p0" /\ g.state = CHECK_RTC
    THEN IF g.rtc.lostPower
         THEN [g EXCEPT !.logCooldown = g.millis,
                        !.state = ERROR_RTC_LOST_POWER]
         ELSE [g EXCEPT !.state = DEFAULT]
    ELSE g

\* case ERROR_RTC_LOST_POWER: p0 leaves the warning once more than 7000 ms
\* have passed, ino while fewer than 7000 ms have passed
WarningOver(rev, g) ==
    IF rev = "p0"
    THEN ElapsedOver(g.millis, g.logCooldown, RTC_WARNING_DURATION)
    ELSE ElapsedUnder(g.millis, g.logCooldown, RTC_WARNING_DURATION)

\* A mutant of OffSwitch: the error states of a failed start are kept
OffSwitchKeepError(rev, g) ==
    CASE g.state = ERROR_RTC_LOST_POWER ->
            IF WarningOver(rev, g)
            THEN [g EXCEPT !.state = READY_FOR_BUTTON_INPUT]
            ELSE g
      [] g.state \in { DEFAULT_STATE, DONE_WORKING_MAY_REMOVEsd } ->
            [g EXCEPT !.state = READY_FOR_BUTTON_INPUT]
      [] OTHER -> g

\* switch (state) of offMode
OffSwitch(rev, g) ==
    CASE g.state = ERROR_RTC_LOST_POWER ->
            IF WarningOver(rev, g)
            THEN [g EXCEPT !.state = READY_FOR_BUTTON_INPUT]
            ELSE g
      [] g.state \in { ERROR_DATAFILE_FAILED, ERROR_TIME_TXT_NOT_FOUND,
                       ERROR_TIME_TXT_FORMAT_INCORRECT, DEFAULT_STATE,
                       DONE_WORKING_MAY_REMOVEsd } ->
            [g EXCEPT !.state = READY_FOR_BUTTON_INPUT]
      [] OTHER -> g

\* A mutant of StartSession: the byte counter is restarted with the header
StartSessionRestart(g) ==
    [g EXCEPT !.numBytes = HEADER_BYTES,
              !.state = DEFAULT_STATE,
              !.idolingTime = g.millis,
              !.mode = TEMP_HUMIDITY_VIEW,
              !.led = LOW]

\* A mutant of StartSession: the session starts in the duration view
StartSessionDurationView(g) ==
    [g EXCEPT !.numBytes = @ + HEADER_BYTES,
              !.state = DEFAULT_STATE,
              !.idolingTime = g.millis,
              !.mode = DURATION_BYTES_VIEW,
              !.led = LOW]

\* the else branch of if (!dataFile): header row, state, mode, LED
StartSession(g) ==
    [g EXCEPT !.numBytes = @ + HEADER_BYTES,
              !.state = DEFAULT_STATE,
              !.idolingTime = g.millis,
              !.mode = TEMP_HUMIDITY_VIEW,
              !.led = LOW]

\* what offMode does once defineDateFile has returned
AfterDefine(g) ==
    IF g.pc = "probe" THEN g
    ELSE IF g.state = ERROR_TIME_TXT_FORMAT_INCORRECT
            \/ g.state = ERROR_TIME_TXT_NOT_FOUND
    THEN g
    ELSE IF ~g.dataFile.open
    THEN [g EXCEPT !.state = ERROR_DATAFILE_FAILED, !.beginPath = "openfail"]
    ELSE StartSession(g)

\* the button part of offMode.  in.button: digitalRead(buttonPin);
\* in.sdOk: what sd.begin returns
OffButton(rev, g, in) ==
    IF in.button = LOW
       /\ (g.state = READY_FOR_BUTTON_INPUT \/ g.state = ERROR_RTC_LOST_POWER)
    THEN [g EXCEPT !.state = BUTTON_PRESSED]
    ELSE IF in.button = HIGH /\ g.state = BUTTON_PRESSED THEN
        IF ~in.sdOk
        THEN [g EXCEPT !.state = ERROR_DATAFILE_FAILED,
                       !.beginPath = "sdfail"]
        ELSE AfterDefine(defineDateFile(rev, g, in))
    ELSE g

offMode(rev, g, in) == OffButton(rev, OffSwitch(rev, CheckRtc(rev, g)), in)

-----------------------------------------------------------------------------
(* menue() *)

\* A mutant of MenuCommit: the third selection leaves the stream open
MenuCommitKeepOpen(rev, g) ==
    IF ElapsedOver(g.millis, g.lastPressTime, MENUE_SELECT_DURATION(rev))
       /\ g.state % 2 = 0
    THEN CASE g.state = 2 ->
                [g EXCEPT !.mode = TEMP_HUMIDITY_VIEW,
                          !.state = DEFAULT_STATE,
                          !.idolingTime = g.millis]
           [] g.state = 4 ->
                [g EXCEPT !.mode = DURATION_BYTES_VIEW,
                          !.state = DEFAULT_STATE,
                          !.idolingTime = g.millis]
           [] g.state = 6 ->
                [g EXCEPT !.mode = OFF,
                          !.state = DONE_WORKING_MAY_REMOVEsd,
                          !.led = HIGH]
           [] OTHER -> g
    ELSE g

\* if (millis() - lastPressTime > MENUE_SELECT_DURATION && state%2==0)
\*     switch (state) ...
MenuCommit(rev, g) ==
    IF ElapsedOver(g.millis, g.lastPressTime, MENUE_SELECT_DURATION(rev))
       /\ g.state % 2 = 0
    THEN CASE g.state = 2 ->
                [g EXCEPT !.mode = TEMP_HUMIDITY_VIEW,
                          !.state = DEFAULT_STATE,
                          !.idolingTime = g.millis]
           [] g.state = 4 ->
                [g EXCEPT !.mode = DURATION_BYTES_VIEW,
                          !.state = DEFAULT_STATE,
                          !.idolingTime = g.millis]
           [] g.state = 6 ->
                [g EXCEPT !.mode = OFF,
                          !.state = DONE_WORKING_MAY_REMOVEsd,
                          !.dataFile = [@ EXCEPT !.open = FALSE,
                                                 !.unflushed = 0],
                          !.led = HIGH]
           [] OTHER -> g
    ELSE g

\* the condition of the third branch of the button part: p0 tests
\* preventDoubleClick != 0 && millis() - preventDoubleClick > 50, ino tests
\* preventDoubleClick - millis() > 0 on unsigned long
ReleaseSettled(rev, g) ==
    IF rev = "p0"
    THEN g.preventDoubleClick # 0
         /\ ElapsedOver(g.millis, g.preventDoubleClick,
                        COUNTER_FAKE_BUTTON_RELEASE_DURATION)
    ELSE g.preventDoubleClick # g.millis

\* the button part of menue
MenuButton(rev, g, in) ==
    IF in.button = LOW /\ g.state % 2 = 0 THEN
        [g EXCEPT !.state = IF g.state + 1 > 5 THEN g.state + 1 - 6
                            ELSE g.state + 1]
    ELSE IF in.button = HIGH /\ g.state % 2 = 1 THEN
        [g EXCEPT !.state = g.state + 1,
                  !.preventDoubleClick =
                      IF rev = "p0" THEN g.millis
                      ELSE g.millis + COUNTER_FAKE_BUTTON_RELEASE_DURATION]
    ELSE IF in.button = HIGH /\ g.state % 2 = 0 /\ ReleaseSettled(rev, g)
    THEN [g EXCEPT !.lastPressTime = g.millis, !.preventDoubleClick = 0]
    ELSE g

menue(rev, g, in) == MenuButton(rev, MenuCommit(rev, g), in)

-----------------------------------------------------------------------------
(* loop() *)

\* A mutant of FlushEveryFifth: the flush comes at every tenth log tick
FlushEveryTenth(g) ==
    IF g.numDataPoints % 10 = 0
    THEN [g EXCEPT !.dataFile.unflushed = 0, !.flushed = TRUE]
    ELSE g

\* if (numDataPoints % 5 == 0) dataFile.flush();
FlushEveryFifth(g) ==
    IF g.numDataPoints % 5 = 0
    THEN [g EXCEPT !.dataFile.unflushed = 0, !.flushed = TRUE]
    ELSE g

\* if (millis() - logCooldown > LOG_FREQUENCY) { ... }
LogTick(rev, g, in) ==
    IF ElapsedOver(g.millis, g.logCooldown, LOG_FREQUENCY)
    THEN FlushEveryFifth(
            [log(rev, [g EXCEPT !.numDataPoints = @ + 1], in)
                EXCEPT !.logCooldown = g.millis])
    ELSE g

\* if (mode != MODE_SELECT) screenIdle();
IdleUnlessMenu(rev, g, in) ==
    IF g.mode # MODE_SELECT THEN screenIdle(rev, g, in) ELSE g

\* if (mode != OFF) { log tick; screen idling }
WhileRecording(rev, g, in) ==
    IF g.mode # OFF THEN IdleUnlessMenu(rev, LogTick(rev, g, in), in) ELSE g

\* switch (mode)
Dispatch(rev, g, in) ==
    CASE g.mode = OFF -> offMode(rev, g, in)
      [] g.mode = MODE_SELECT -> menue(rev, g, in)
      [] OTHER -> g

\* one pass of loop(), entered in.dt milliseconds after the previous one
loop(rev, g, in) ==
    Dispatch(rev,
             WhileRecording(rev,
                 [g EXCEPT !.millis = @ + in.dt,
                           !.beginPath = "none",
                           !.probeCount = 0,
                           !.adjustArgs = NoAdjust,
                           !.opened = NoOpen,
                           !.flushed = FALSE,
                           !.offCmd = FALSE],
                 in),
             in)

-----------------------------------------------------------------------------
(* What the environment supplies *)

\* contents of time.txt put on the card
Rec_MM_DD_YY == << "0", "6", "_", "0", "1", "_", "2", "4" >>
Rec_MM_DD_YY_HH == << "0", "6", "_", "0", "1", "_", "2", "4", "_", "1", "0" >>
Rec_MM_DD_YY_HH_mm == << "0", "6", "_", "0", "1", "_", "2", "4", "_", "1", "0", "_", "3", "0", "\n" >>
Rec_M_D == << "6", "_", "1" >>
Rec_M__D == << "6", "_", "_", "1" >>
Rec_Punct == << "6", "-", "_", "1", "_", "2", "4" >>
Records == { Rec_MM_DD_YY, Rec_MM_DD_YY_HH, Rec_MM_DD_YY_HH_mm, Rec_M_D,
             Rec_M__D, Rec_Punct }

\* the files found on the card next to a record: none, or the file that an
\* earlier session started from the same record has left, or the bare
\* record name together with some of its __N files
CardFiles(rev, tt) ==
    IF tt = NoFile THEN { {} }
    ELSE LET base == ReadBytesUntil(tt, "\n", NAME_BYTES)
         IN  { {}, {PlainName(rev, base)} } \cup
             { {base} \cup { ProbeName(rev, base, i) : i \in S } :
                   S \in SUBSET (1 .. MaxSuffix) }

\* seconds since 2000-01-01 of 2024-06-01 10:59:53 and 2024-12-31 23:59:53
ClockStarts == { 770554793, 789004793 }

PassMillis == 3000            \* milliseconds between two passes of loop()
Steps == { PassMillis }
TempReadings == { NaN, Reading(2350), Reading(2400) }
HumReadings == { NaN, Reading(4500) }
NoAdv == [k \in 1 .. 5 |-> 0]

\* the clock steps at most once while the five rtc.now() calls are made;
\* the order in which the arguments of snprintf are evaluated is
\* unspecified, so any of the five calls may be among those made after it
Advances == [1 .. 5 -> {0, 1}]

\* bytes of a recovery record drawn for the scan: two digits, the
\* underscore, a letter and a punctuation mark
Bytes == { "0", "1", "_", "a", "-" }

-----------------------------------------------------------------------------
(* State *)

Globals ==
    [ mode |-> mode, state |-> state, millis |-> millis,
      lastPressTime |-> lastPressTime, idolingTime |-> idolingTime,
      logCooldown |-> logCooldown, preventDoubleClick |-> preventDoubleClick,
      refTime |-> refTime, numBytes |-> numBytes,
      timeSeconds |-> timeSeconds, humidity |-> humidity,
      temperature |-> temperature, numDataPoints |-> numDataPoints,
      dataFile |-> dataFile, files |-> files, timeTxt |-> timeTxt,
      rtc |-> rtc, led |-> led, backlight |-> backlight, offCmd |-> offCmd,
      pc |-> pc, beginPath |-> beginPath, probeCount |-> probeCount,
      adjustArgs |-> adjustArgs, opened |-> opened, flushed |-> flushed ]

Install(g) ==
    /\ mode' = g.mode
    /\ state' = g.state
    /\ millis' = g.millis
    /\ lastPressTime' = g.lastPressTime
    /\ idolingTime' = g.idolingTime
    /\ logCooldown' = g.logCooldown
    /\ preventDoubleClick' = g.preventDoubleClick
    /\ refTime' = g.refTime
    /\ numBytes' = g.numBytes
    /\ timeSeconds' = g.timeSeconds
    /\ humidity' = g.humidity
    /\ temperature' = g.temperature
    /\ numDataPoints' = g.numDataPoints
    /\ dataFile' = g.dataFile
    /\ files' = g.files
    /\ timeTxt' = g.timeTxt
    /\ rtc' = g.rtc
    /\ led' = g.led
    /\ backlight' = g.backlight
    /\ offCmd' = g.offCmd
    /\ pc' = g.pc
    /\ beginPath' = g.beginPath
    /\ probeCount' = g.probeCount
    /\ adjustArgs' = g.adjustArgs
    /\ opened' = g.opened
    /\ flushed' = g.flushed

\* the globals after their initialisers and setup(), run at millis() = 0
setup(rev, r) ==
    [ mode |-> OFF,
      state |-> IF rev = "p0" THEN CHECK_RTC
                ELSE IF r.lostPower THEN ERROR_RTC_LOST_POWER
                ELSE DEFAULT_STATE,
      millis |-> 0, lastPressTime |-> 0, idolingTime |-> 0,
      logCooldown |-> 0, preventDoubleClick |-> 0,
      refTime |-> RefTimeOf(rev, UnixTime(Now(r, 0))),
      numBytes |-> 0, timeSeconds |-> 0,
      humidity |-> Reading(0), temperature |-> Reading(0),
      numDataPoints |-> 0, dataFile |-> ClosedFile,
      led |-> HIGH, backlight |-> TRUE ]

InitDevice(rev, g, r, tt, fs) ==
        /\ revision = rev
        /\ mode = g.mode
        /\ state = g.state
        /\ millis = g.millis
        /\ lastPressTime = g.lastPressTime
        /\ idolingTime = g.idolingTime
        /\ logCooldown = g.logCooldown
        /\ preventDoubleClick = g.preventDoubleClick
        /\ refTime = g.refTime
        /\ numBytes = g.numBytes
        /\ timeSeconds = g.timeSeconds
        /\ humidity = g.humidity
        /\ temperature = g.temperature
        /\ numDataPoints = g.numDataPoints
        /\ dataFile = g.dataFile
        /\ led = g.led
        /\ backlight = g.backlight
        /\ rtc = r
        /\ timeTxt = tt
        /\ files = fs
        /\ offCmd = FALSE
        /\ pc = "loop"
        /\ beginPath = "none"
        /\ probeCount = 0
        /\ adjustArgs = NoAdjust
        /\ opened = NoOpen
        /\ flushed = FALSE

\* The device after power-up.  A clock that lost power restarts at
\* 2000-01-01 00:00:00; the card then carries some recovery record or none.
Init ==
    /\ \E rev \in Revisions :
          \/ \E tt \in Records \cup {NoFile} : \E fs \in CardFiles(rev, tt) :
                InitDevice(rev, setup(rev, [base |-> 0, lostPower |-> TRUE]),
                           [base |-> 0, lostPower |-> TRUE], tt, fs)
          \/ \E b \in ClockStarts :
                InitDevice(rev, setup(rev, [base |-> b, lostPower |-> FALSE]),
                           [base |-> b, lostPower |-> FALSE], NoFile, {})
    /\ savedName = << >>
    /\ scan = ScanInit
    /\ parseDone = FALSE
    /\ pressedAt = -1
    /\ upSince = 0

-----------------------------------------------------------------------------
(* Actions: one pass of loop() *)

LogDue(dt) ==
    mode # OFF /\ ElapsedOver(millis + dt, logCooldown, LOG_FREQUENCY)

BeginDue(b) == mode = OFF /\ state = BUTTON_PRESSED /\ b = HIGH

\* one pass of loop(), dt milliseconds after the previous one, the button
\* reading b; passes are followed until millis() = until and for at most
\* samples log ticks, the sensor readings being drawn from hums and temps
PassIn(dt, b, until, samples, hums, temps) ==
    /\ pc = "loop"
    /\ millis + dt <= until
    /\ LogDue(dt) => numDataPoints < samples
    /\ \E hum \in (IF LogDue(dt) THEN hums ELSE {Reading(0)}),
          temp \in (IF LogDue(dt) THEN temps ELSE {Reading(0)}),
          sdOk \in (IF BeginDue(b) THEN BOOLEAN ELSE {TRUE}),
          openOk \in (IF BeginDue(b) THEN BOOLEAN ELSE {TRUE}),
          adv \in (IF BeginDue(b) /\ ~rtc.lostPower
                   THEN Advances ELSE {NoAdv}) :
            Install(loop(revision, Globals,
                         [dt |-> dt, button |-> b, hum |-> hum,
                          temp |-> temp, sdOk |-> sdOk, openOk |-> openOk,
                          adv |-> adv]))
    /\ UNCHANGED << revision, savedName, scan, parseDone >>

\* the pass read b: the run of HIGH readings goes on, starts, or is broken
UpSinceAfter(b, now) ==
    IF b = LOW THEN -1 ELSE IF upSince = -1 THEN now ELSE upSince

\* the pass read b: a LOW after a HIGH is a press
PressedAfter(b, now) ==
    IF b = LOW /\ upSince # -1 THEN now ELSE pressedAt

Pass(dt, b) ==
    /\ PassIn(dt, b, MaxPasses * PassMillis, MaxSamples, HumReadings,
              TempReadings)
    /\ pressedAt' = PressedAfter(b, millis + dt)
    /\ upSince' = UpSinceAfter(b, millis + dt)

\* loop() entered with mode == OFF: offMode()
LoopOff == mode = OFF /\ \E dt \in Steps, b \in {LOW, HIGH} : Pass(dt, b)

\* loop() entered with mode == MODE_SELECT: log tick, menue()
LoopMenu ==
    mode = MODE_SELECT /\ \E dt \in Steps, b \in {LOW, HIGH} : Pass(dt, b)

\* loop() entered in one of the two views: log tick, screenIdle(), display
LoopView ==
    /\ mode \in {TEMP_HUMIDITY_VIEW, DURATION_BYTES_VIEW}
    /\ \E dt \in Steps, b \in {LOW, HIGH} : Pass(dt, b)

Next == LoopOff \/ LoopMenu \/ LoopView

Spec == Init /\ [][Next]_vars

-----------------------------------------------------------------------------
(* The scan of defineDateFile on its own: the bytes of the record are drawn *)
(* one at a time, each followed by the pass of the scan loop on it          *)

\* the globals when offMode calls defineDateFile on a clock that lost power,
\* two passes after power-up
AtScan(rev) ==
    [setup(rev, [base |-> 0, lostPower |-> TRUE])
        EXCEPT !.state = BUTTON_PRESSED,
               !.millis = 2 * PassMillis,
               !.logCooldown = IF rev = "p0" THEN PassMillis ELSE 0]

InitScan ==
    /\ \E rev \in Revisions :
          InitDevice(rev, AtScan(rev), [base |-> 0, lostPower |-> TRUE],
                     NoFile, {})
    /\ savedName = << >>
    /\ scan = ScanInit
    /\ parseDone = FALSE
    /\ pressedAt = -1
    /\ upSince = 0

\* savedName[i] = c is read and the body of the for loop runs on it
ScanNextByte ==
    /\ ~parseDone
    /\ ~scan.err
    /\ Len(savedName) < MaxLen
    /\ \E c \in Bytes :
          /\ savedName' = Append(savedName, c)
          /\ scan' = ScanByte(revision, scan, c, Len(savedName))
          /\ state' = IF ScanByte(revision, scan, c, Len(savedName)).err
                      THEN ERROR_TIME_TXT_FORMAT_INCORRECT
                      ELSE state
    /\ UNCHANGED << revision, mode, millis, lastPressTime, idolingTime,
                    logCooldown, preventDoubleClick, refTime, numBytes,
                    timeSeconds, humidity, temperature, numDataPoints,
                    dataFile, files, timeTxt, rtc, led, backlight, offCmd,
                    pc, beginPath, probeCount, adjustArgs, opened, flushed,
                    parseDone, pressedAt, upSince >>

\* i == len: the loop is left and rtc.adjust is called
ScanEnd ==
    /\ ~parseDone
    /\ ~scan.err
    /\ parseDone' = TRUE
    /\ Install(Adjust(revision, Globals, AdjustArgs(scan.date)))
    /\ UNCHANGED << revision, savedName, scan, pressedAt, upSince >>

NextScan == ScanNextByte \/ ScanEnd

SpecScan == InitScan /\ [][NextScan]_vars

-----------------------------------------------------------------------------
(* A session in progress: the device two passes after power-up, the clock  *)
(* having kept power, the button pressed in the first pass and released in *)
(* the second, sd.begin and sd.open having succeeded                       *)

MaxLongPasses == 8      \* passes followed by SpecLong
MaxMenuPasses == 12     \* passes followed by SpecMenu
MaxBouncePasses == 8    \* passes followed by SpecBounce
MaxDayPasses == 5       \* passes followed by SpecDay
MaxSessionTicks == 6    \* log ticks followed by SpecSessions
MaxCarried == 3         \* log ticks of the session before, SpecSessions

\* seconds since 2000-01-01 of 2024-06-01 10:59:53
SessionClock == [base |-> 770554793, lostPower |-> FALSE]

\* the globals and the card at power-up
Boot(rev) ==
    setup(rev, SessionClock) @@
    [ files |-> {}, timeTxt |-> NoFile, rtc |-> SessionClock,
      offCmd |-> FALSE, pc |-> "loop", beginPath |-> "none",
      probeCount |-> 0, adjustArgs |-> NoAdjust, opened |-> NoOpen,
      flushed |-> FALSE ]

QuietInput(b) ==
    [dt |-> PassMillis, button |-> b, hum |-> Reading(0),
     temp |-> Reading(0), sdOk |-> TRUE, openOk |-> TRUE, adv |-> NoAdv]

Started(rev) ==
    loop(rev, loop(rev, Boot(rev), QuietInput(LOW)), QuietInput(HIGH))

\* the globals, the card and the clock stand as in g
StandsAt(g) ==
    /\ mode = g.mode
    /\ state = g.state
    /\ millis = g.millis
    /\ lastPressTime = g.lastPressTime
    /\ idolingTime = g.idolingTime
    /\ logCooldown = g.logCooldown
    /\ preventDoubleClick = g.preventDoubleClick
    /\ refTime = g.refTime
    /\ numBytes = g.numBytes
    /\ timeSeconds = g.timeSeconds
    /\ humidity = g.humidity
    /\ temperature = g.temperature
    /\ numDataPoints = g.numDataPoints
    /\ dataFile = g.dataFile
    /\ files = g.files
    /\ timeTxt = g.timeTxt
    /\ rtc = g.rtc
    /\ led = g.led
    /\ backlight = g.backlight
    /\ offCmd = g.offCmd
    /\ pc = g.pc
    /\ beginPath = g.beginPath
    /\ probeCount = g.probeCount
    /\ adjustArgs = g.adjustArgs
    /\ opened = g.opened
    /\ flushed = g.flushed

InitStarted ==
    /\ \E rev \in Revisions :
          /\ revision = rev
          /\ StandsAt(Started(rev))
    /\ savedName = << >>
    /\ scan = ScanInit
    /\ parseDone = FALSE
    /\ pressedAt = PassMillis
    /\ upSince = 2 * PassMillis

-----------------------------------------------------------------------------
(* The session followed over log ticks: every pass comes 5100 milliseconds *)
(* after the previous one, which makes each a log tick.  With passes this  *)
(* far apart the menu commits at the pass after each release, so the third *)
(* selection and with it mode OFF are never reached.                       *)

LongSteps == { 5100 }
LongTemps == { NaN, Reading(2350) }
LongHums == { Reading(4500) }

LongPass(dt, b) ==
    /\ PassIn(dt, b, 2 * PassMillis + MaxLongPasses * 5100, MaxLongPasses,
              LongHums, LongTemps)
    /\ pressedAt' = PressedAfter(b, millis + dt)
    /\ upSince' = UpSinceAfter(b, millis + dt)

LongMenu ==
    /\ mode = MODE_SELECT
    /\ \E dt \in LongSteps, b \in {LOW, HIGH} : LongPass(dt, b)

LongView ==
    /\ mode \in {TEMP_HUMIDITY_VIEW, DURATION_BYTES_VIEW}
    /\ \E dt \in LongSteps, b \in {LOW, HIGH} : LongPass(dt, b)

NextLong == LongMenu \/ LongView

SpecLong == InitStarted /\ [][NextLong]_vars

-----------------------------------------------------------------------------
(* The session followed through the menu: passes come 400 milliseconds     *)
(* apart, longer than the 50 ms window and shorter than half the shorter   *)
(* MENUE_SELECT_DURATION                                                   *)

MenuSteps == { 400 }
MenuTemps == { Reading(2350) }
MenuHums == { Reading(4500) }

MenuPass(dt, b) ==
    /\ PassIn(dt, b, 2 * PassMillis + MaxMenuPasses * 400, MaxMenuPasses,
              MenuHums, MenuTemps)
    /\ pressedAt' = PressedAfter(b, millis + dt)
    /\ upSince' = UpSinceAfter(b, millis + dt)

MenuOff ==
    /\ mode = OFF
    /\ \E dt \in MenuSteps, b \in {LOW, HIGH} : MenuPass(dt, b)

MenuSelect ==
    /\ mode = MODE_SELECT
    /\ \E dt \in MenuSteps, b \in {LOW, HIGH} : MenuPass(dt, b)

MenuView ==
    /\ mode \in {TEMP_HUMIDITY_VIEW, DURATION_BYTES_VIEW}
    /\ \E dt \in MenuSteps, b \in {LOW, HIGH} : MenuPass(dt, b)

NextMenu == MenuOff \/ MenuSelect \/ MenuView

SpecMenu == InitStarted /\ [][NextMenu]_vars

-----------------------------------------------------------------------------
(* The same with passes 30 milliseconds apart, inside the 50 ms window:    *)
(* too short a time for a commit, so the modes are the views and the menu  *)

BounceSteps == { 30 }

BouncePass(dt, b) ==
    /\ PassIn(dt, b, 2 * PassMillis + MaxBouncePasses * 30, MaxBouncePasses,
              MenuHums, MenuTemps)
    /\ pressedAt' = PressedAfter(b, millis + dt)
    /\ upSince' = UpSinceAfter(b, millis + dt)

BounceSelect ==
    /\ mode = MODE_SELECT
    /\ \E dt \in BounceSteps, b \in {LOW, HIGH} : BouncePass(dt, b)

BounceView ==
    /\ mode \in {TEMP_HUMIDITY_VIEW, DURATION_BYTES_VIEW}
    /\ \E dt \in BounceSteps, b \in {LOW, HIGH} : BouncePass(dt, b)

NextBounce == BounceSelect \/ BounceView

SpecBounce == InitStarted /\ [][NextBounce]_vars

-----------------------------------------------------------------------------
(* The session followed over more than a day: of its passes only one every *)
(* 6 hours and 5 minutes is followed, each a log tick; the fifth comes     *)
(* 30 h 25 min after the start.  Every followed pass finds the idle time   *)
(* past IDOLING_DURATION, so the menu is never entered.                    *)

DaySteps == { 21900000 }
DayTemps == { Reading(2350), Reading(2400) }

DayPass(dt, b) ==
    /\ PassIn(dt, b, 2 * PassMillis + MaxDayPasses * 21900000, MaxDayPasses,
              MenuHums, DayTemps)
    /\ pressedAt' = PressedAfter(b, millis + dt)
    /\ upSince' = UpSinceAfter(b, millis + dt)

DayView ==
    /\ mode \in {TEMP_HUMIDITY_VIEW, DURATION_BYTES_VIEW}
    /\ \E dt \in DaySteps, b \in {LOW, HIGH} : DayPass(dt, b)

NextDay == DayView

SpecDay == InitStarted /\ [][NextDay]_vars

-----------------------------------------------------------------------------
(* One session after another: a session that has logged for a while is     *)
(* stopped from the menu and the next one is started; that one is then     *)
(* followed over its log ticks, as the first one is                        *)

\* what a pass reads that comes dt after the last, the sensor steady
SteadyInput(dt, b) ==
    [dt |-> dt, button |-> b, hum |-> Reading(4500), temp |-> Reading(2350),
     sdOk |-> TRUE, openOk |-> TRUE, adv |-> NoAdv]

\* k passes of loop(), each a log tick, the button up, the temperature
\* another at every tick, so that both revisions write a record
LogTicks(k) ==
    [i \in 1 .. k |->
        [SteadyInput(5100, HIGH) EXCEPT
            !.temp = IF i % 2 = 1 THEN Reading(2400) ELSE Reading(2350)]]

\* passes 400 ms apart: the button is pressed and released three times,
\* which enters the menu and moves to the third selection, then left up
\* until the selection is committed and offMode is ready, then pressed and
\* released once more, which starts the next session
StopAndStart ==
    << SteadyInput(400, LOW), SteadyInput(400, HIGH),
       SteadyInput(400, LOW), SteadyInput(400, HIGH),
       SteadyInput(400, LOW), SteadyInput(400, HIGH),
       SteadyInput(400, HIGH), SteadyInput(400, HIGH),
       SteadyInput(400, LOW), SteadyInput(400, HIGH) >>

\* loop() run on each of the inputs ins in turn
RECURSIVE RunPasses(_, _, _)
RunPasses(rev, g, ins) ==
    IF ins = << >> THEN g
    ELSE RunPasses(rev, loop(rev, g, Head(ins)), Tail(ins))

\* the second session, begun after a first one of k log ticks and the
\* passes of StopAndStart
Restarted(rev, k) == RunPasses(rev, Started(rev), LogTicks(k) \o StopAndStart)

InitSessions ==
    /\ \E rev \in Revisions :
          /\ revision = rev
          /\ \E k \in 0 .. MaxCarried :
                /\ StandsAt(Restarted(rev, k))
                /\ pressedAt = Restarted(rev, k).millis - 400
                /\ upSince = Restarted(rev, k).millis
    /\ savedName = << >>
    /\ scan = ScanInit
    /\ parseDone = FALSE

SessionSteps == { 5100 }
SessionTemps == { NaN, Reading(2350), Reading(2400) }

SessionPass(dt, b) ==
    /\ numDataPoints < MaxCarried + 1 + MaxSessionTicks
    /\ PassIn(dt, b, millis + dt, MaxCarried + 1 + MaxSessionTicks,
              LongHums, SessionTemps)
    /\ pressedAt' = PressedAfter(b, millis + dt)
    /\ upSince' = UpSinceAfter(b, millis + dt)

SessionMenu ==
    /\ mode = MODE_SELECT
    /\ \E dt \in SessionSteps, b \in {LOW, HIGH} : SessionPass(dt, b)

SessionView ==
    /\ mode \in {TEMP_HUMIDITY_VIEW, DURATION_BYTES_VIEW}
    /\ \E dt \in SessionSteps, b \in {LOW, HIGH} : SessionPass(dt, b)

NextSessions == SessionMenu \/ SessionView

SpecSessions == InitSessions /\ [][NextSessions]_vars

-----------------------------------------------------------------------------
(* Reading a recovery record as text, independently of the scan *)

\* the runs of bytes between underscores
RECURSIVE SplitAt(_, _)
SplitAt(text, acc) ==
    IF text = << >> THEN << acc >>
    ELSE IF Head(text) = "_" THEN << acc >> \o SplitAt(Tail(text), << >>)
    ELSE SplitAt(Tail(text), Append(acc, Head(text)))

Fields(text) == SplitAt(text, << >>)

\* one or two decimal digits
IsField(f) == Len(f) \in {1, 2} /\ \A i \in 1 .. Len(f) : f[i] \in Digits

FieldValue(f) ==
    IF Len(f) = 1 THEN DigitVal(f[1])
    ELSE 10 * DigitVal(f[1]) + DigitVal(f[2])

\* MM_DD_YY, MM_DD_YY_HH, MM_DD_YY_HH_mm, MM_DD_YY_HH_mm_SS
PlainRecord(fs) ==
    Len(fs) \in 3 .. 6 /\ \A i \in 1 .. Len(fs) : IsField(fs[i])

\* MM_DD_YY__N, MM_DD_YY_HH__N
SuffixRecord(fs) ==
    /\ Len(fs) \in {5, 6}
    /\ fs[Len(fs) - 1] = << >>
    /\ \A i \in 1 .. Len(fs) : i # Len(fs) - 1 => IsField(fs[i])

ValidRecord(text) == PlainRecord(Fields(text)) \/ SuffixRecord(Fields(text))

DateFieldCount(fs) == IF SuffixRecord(fs) THEN Len(fs) - 2 ELSE Len(fs)

FieldOrZero(fs, k) ==
    IF k <= DateFieldCount(fs) THEN FieldValue(fs[k]) ELSE 0

\* the values a valid record encodes
Encoded(text) ==
    [ year   |-> 2000 + FieldValue(Fields(text)[3]),
      month  |-> FieldValue(Fields(text)[1]),
      day    |-> FieldValue(Fields(text)[2]),
      hour   |-> FieldOrZero(Fields(text), 4),
      minute |-> FieldOrZero(Fields(text), 5),
      second |-> FieldOrZero(Fields(text), 6) ]

HasInvalidByte(text) ==
    \E i \in 1 .. Len(text) : text[i] \notin Digits \cup {"_", "\n", "\r"}

EndsWith(text, tail) ==
    /\ Len(text) >= Len(tail)
    /\ SubSeq(text, Len(text) - Len(tail) + 1, Len(text)) = tail

DropLast(text, n) == SubSeq(text, 1, Len(text) - n)

\* the record defineDateFile reads from time.txt
RecordRead == ReadBytesUntil(timeTxt, "\n", NAME_BYTES)

\* this step is a pass of loop() in which defineDateFile was called
BeginCalled == beginPath' \notin {"none", "sdfail"}

\* the clock has lost power and the card carries a record whose scan ends
\* without error in one of the formats fmts, its bare name being on the card
CollidingRecord(fmts) ==
    /\ rtc.lostPower
    /\ timeTxt # NoFile
    /\ ~Scan(revision, RecordRead).err
    /\ Scan(revision, RecordRead).format \in fmts
    /\ RecordRead \in files

\* the smallest N >= 1 for which base__N with the extension is not on the card
SmallestFree(rev, base, fs) ==
    CHOOSE i \in 1 .. Cardinality(fs) + 1 :
        /\ ProbeName(rev, base, i) \notin fs
        /\ \A j \in 1 .. i - 1 : ProbeName(rev, base, j) \in fs

\* the name "%02d_%02d_%02d_%02d_%02d" of the single instant u
NameOfInstant(rev, u) ==
    ClockName(rev, DateTimeOf(u).month, DateTimeOf(u).day,
              DateTimeOf(u).year, DateTimeOf(u).hour, DateTimeOf(u).minute)

-----------------------------------------------------------------------------
(* Claims about the scan, under SpecScan *)

\* C1: a record of one of the six valid forms is scanned without the
\* format-error state, and once the scan has ended the clock is adjusted
\* with exactly the values the record encodes.
C1_ValidRecordParsedExactly ==
    ValidRecord(savedName) =>
        /\ ~scan.err
        /\ state # ERROR_TIME_TXT_FORMAT_INCORRECT
        /\ parseDone => adjustArgs = Encoded(savedName)

LeadingUnderscore(text) == Len(text) >= 1 /\ text[1] = "_"

TripleUnderscore(text) ==
    \E i \in 1 .. Len(text) - 2 :
        text[i] = "_" /\ text[i + 1] = "_" /\ text[i + 2] = "_"

ThreeDigits(text) ==
    \E i \in 1 .. Len(text) - 2 :
        text[i] \in Digits /\ text[i + 1] \in Digits /\ text[i + 2] \in Digits

\* digits in runs of at most two, separated by single underscores
DigitFieldsSingleUnderscores(text) ==
    /\ \A i \in 1 .. Len(text) : text[i] \in Digits \cup {"_"}
    /\ ~LeadingUnderscore(text)
    /\ ~ThreeDigits(text)
    /\ \A i \in 1 .. Len(text) - 1 : ~(text[i] = "_" /\ text[i + 1] = "_")

\* C3: a leading underscore, a run of three underscores or a run of three
\* digits ends the scan in the format-error state, and fields of at most
\* two digits separated by single underscores never do.
C3_UnderscoreAndDigitLimits ==
    /\ (LeadingUnderscore(savedName) \/ TripleUnderscore(savedName)
            \/ ThreeDigits(savedName))
          => scan.err /\ state = ERROR_TIME_TXT_FORMAT_INCORRECT
    /\ DigitFieldsSingleUnderscores(savedName) => ~scan.err

\* the bytes before a double underscore at the end of the text are n
\* non-empty fields separated by single underscores
FieldsBeforeDoubleUnderscore(text, n) ==
    /\ EndsWith(text, << "_", "_" >>)
    /\ Len(Fields(DropLast(text, 2))) = n
    /\ \A i \in 1 .. n : Fields(DropLast(text, 2))[i] # << >>

-----------------------------------------------------------------------------
(* Claims about the device, under Spec *)

\* C2: when defineDateFile reads a record holding a byte other than a
\* digit, an underscore, '\n' or '\r', it ends in the format-error state,
\* the clock is not adjusted and no output file is opened.
C2_InvalidByteRejected ==
    [][(rtc.lostPower /\ timeTxt # NoFile /\ HasInvalidByte(RecordRead)
            /\ BeginCalled)
        => /\ state' = ERROR_TIME_TXT_FORMAT_INCORRECT
           /\ adjustArgs' = NoAdjust
           /\ rtc' = rtc
           /\ ~dataFile'.open]_vars

C6_CollisionOfHourFormatGetsSuffix ==
    [][(CollidingRecord({4}) /\ BeginCalled /\ beginPath' # "openfail")
        => /\ dataFile'.open
           /\ dataFile'.name =
                ProbeName(revision, RecordRead,
                          SmallestFree(revision, RecordRead, files))
           /\ mode' = TEMP_HUMIDITY_VIEW]_vars

\* C7: when the bare name is on the card and the format is neither 2 nor 4,
\* the probe loop is left, with the smallest N >= 1 whose name base__N is
\* not on the card.
C7_ProbeFindsSmallestFreeName ==
    [][(CollidingRecord({0, 1, 3, 5, 6, 7}) /\ BeginCalled)
        => /\ pc' = "loop"
           /\ probeCount' = SmallestFree(revision, RecordRead, files)]_vars

\* C8: a session started while the clock had lost power leaves no time.txt
\* on the card and a clock that no longer reports lost power, so the record
\* starts one session only.
C8_RecordRemovedOnRecoveryStart ==
    [][(rtc.lostPower /\ mode = OFF /\ mode' # OFF)
        => timeTxt' = NoFile /\ ~rtc'.lostPower]_vars

\* a session has just been started from a record
C8_Witness ==
    /\ beginPath = "recovery"
    /\ dataFile.open
    /\ mode = TEMP_HUMIDITY_VIEW
    /\ timeTxt = NoFile
    /\ adjustArgs # NoAdjust

\* C9: the file opened on the clock path is named after one single instant
\* between the first and the last read of the clock.
C9_NameOfOneInstant ==
    (beginPath = "clock" /\ dataFile.open) =>
        \E u \in { opened.t, opened.t + 1 } :
            dataFile.name = NameOfInstant(revision, u)

\* C10: numBytes and numDataPoints never decrease.
C10_CountersNeverDecrease ==
    [][numBytes' >= numBytes /\ numDataPoints' >= numDataPoints]_vars

\* three log ticks of which one wrote a record and the last read NaN
C10_Witness ==
    /\ revision = "p0"
    /\ numDataPoints = 3
    /\ dataFile.unflushed = 1
    /\ numBytes > HEADER_BYTES
    /\ isnan(temperature)

\* this step is a pass of loop() that made a log tick
LogTicked == mode # OFF /\ logCooldown' # logCooldown

\* the reading taken by the log tick of this step was not-a-number
ReadNan == isnan(humidity') \/ isnan(temperature')

\* C11: a log tick whose reading is not-a-number writes nothing and leaves
\* numBytes and numDataPoints as they were.
C11_NanTickChangesNothing ==
    [][(LogTicked /\ ReadNan)
        => /\ numBytes' = numBytes
           /\ numDataPoints' = numDataPoints
           /\ dataFile'.unflushed <= dataFile.unflushed]_vars

\* this pass wrote a record to the stream
WroteRecord == numBytes' # numBytes

\* C12: the stream is flushed exactly when the number of records written
\* becomes a multiple of 5: on the pass that writes the fifth record since
\* the stream was opened or last flushed, and on no other pass.
C12_FlushOnFifthWrittenRecord ==
    [][mode # OFF =>
         (flushed' <=> (WroteRecord /\ dataFile.unflushed = 4))]_vars

\* C13: between passes the stream is open exactly when mode is not OFF;
\* sd.begin and the open are attempted only by a pass entered in mode OFF
\* with no stream open; a pass entered in mode OFF, as every pass is once
\* the third selection has closed the stream, neither writes a record nor
\* flushes.
C13_StreamOpenIffRecording ==
    [][/\ pc' = "loop" => (dataFile'.open <=> mode' # OFF)
       /\ beginPath' # "none" => (mode = OFF /\ ~dataFile.open)
       /\ mode = OFF => (~flushed' /\ dataFile'.unflushed = 0)
       /\ ~dataFile.open => (~flushed' /\ dataFile'.unflushed = 0)]_vars

\* the stream has been closed by the third selection
C13_Witness ==
    /\ mode = OFF
    /\ state = DONE_WORKING_MAY_REMOVEsd
    /\ ~dataFile.open
    /\ numDataPoints > 0

\* the changes of mode the controllers make: offMode starts a session,
\* screenIdle enters the menu from a view, menue commits a selection
ModeEdges ==
    { << OFF, TEMP_HUMIDITY_VIEW >>,
      << TEMP_HUMIDITY_VIEW, MODE_SELECT >>,
      << DURATION_BYTES_VIEW, MODE_SELECT >>,
      << MODE_SELECT, TEMP_HUMIDITY_VIEW >>,
      << MODE_SELECT, DURATION_BYTES_VIEW >>,
      << MODE_SELECT, OFF >> }

\* C14: from one pass to the next mode changes only from OFF to the
\* temperature view, from a view to the menu, or from the menu to a view or
\* to OFF; never from OFF to the menu or to the duration view, from a view
\* to OFF, or from one view to the other.
C14_ModeChangesAlongEdges ==
    [][mode' # mode => << mode, mode' >> \in ModeEdges]_vars

\* the duration view, which only a commit of the second selection shows
C14_Witness ==
    /\ mode = DURATION_BYTES_VIEW
    /\ state = DEFAULT_STATE
    /\ dataFile.open

\* this pass committed a selection: it was entered in the menu and left it
Committed == mode = MODE_SELECT /\ mode' # MODE_SELECT

\* C15: a commit acts on the selection shown.  First item (state 2): mode is
\* the temperature view.  Second (state 4): the duration view.  Third
\* (state 6): the stream is closed, the LED is back at HIGH, mode is OFF and
\* the pass ends with state DONE_WORKING_MAY_REMOVEsd, whatever the button
\* reads on that pass.
C15_CommitBySelection ==
    [][Committed =>
         /\ state = 2 => mode' = TEMP_HUMIDITY_VIEW
         /\ state = 4 => mode' = DURATION_BYTES_VIEW
         /\ state = 6 => /\ mode' = OFF
                         /\ ~dataFile'.open
                         /\ led' = HIGH
                         /\ state' = DONE_WORKING_MAY_REMOVEsd
         /\ state \in {2, 4, 6}]_vars

\* state while the button is held on the selection after the one that
\* state s shows released: first (2) -> second (3), second (4) -> third (5),
\* third (6) -> first (1)
HeldOnNext(s) == CASE s = 2 -> 3 [] s = 4 -> 5 [] s = 6 -> 1 [] OTHER -> -1

\* this pass read the button down in the menue's up-phase, more than the
\* 50 ms window after the release and less than MENUE_SELECT_DURATION after
\* the press before it (the press that entered the menu included)
DebouncedPress ==
    /\ mode = MODE_SELECT
    /\ state % 2 = 0
    /\ upSince # -1
    /\ upSince' = -1
    /\ millis' - upSince > COUNTER_FAKE_BUTTON_RELEASE_DURATION
    /\ millis' - pressedAt < MENUE_SELECT_DURATION(revision)

\* this pass read the button up again after a press in the menu
ReleaseInMenu ==
    /\ mode = MODE_SELECT
    /\ state % 2 = 1
    /\ upSince' # -1

\* C16: in the menu every debounced press moves the selection on by exactly
\* one place in the cycle first, second, third, first, and its release
\* leaves the selection on that place.
C16_PressAdvancesByOne ==
    [][/\ DebouncedPress => (mode' = MODE_SELECT /\ state' = HeldOnNext(state))
       /\ ReleaseInMenu => (mode' = MODE_SELECT /\ state' = state + 1)]_vars

\* C17: lcd.noBacklight() is called only by a pass entered in a view mode
\* at which the time since idolingTime is strictly between IDOLING_DURATION
\* and REMAIN_IDOL_DURATION; from REMAIN_IDOL_DURATION on no pass calls it
\* until a press has set idolingTime anew.
C17_BacklightOffBetweenThresholds ==
    [][offCmd' =>
         /\ mode \in {TEMP_HUMIDITY_VIEW, DURATION_BYTES_VIEW}
         /\ millis' - idolingTime > IDOLING_DURATION
         /\ millis' - idolingTime < REMAIN_IDOL_DURATION]_vars

\* the backlight has been switched off and the second threshold is passed
\* without a further command
C17_Witness ==
    /\ mode \in {TEMP_HUMIDITY_VIEW, DURATION_BYTES_VIEW}
    /\ ~backlight
    /\ ~offCmd
    /\ millis - idolingTime > REMAIN_IDOL_DURATION

\* this pass read the button down in the menue's up-phase, within the 50 ms
\* window after the release
PressInWindow ==
    /\ mode = MODE_SELECT
    /\ state % 2 = 0
    /\ upSince # -1
    /\ upSince' = -1
    /\ millis' - upSince <= COUNTER_FAKE_BUTTON_RELEASE_DURATION

\* C18: in the menu a button-down reading within
\* COUNTER_FAKE_BUTTON_RELEASE_DURATION of the release is ignored: state,
\* and with it the selection, stays as it was.
C18_PressInWindowIgnored ==
    [][PressInWindow => state' = state]_vars

\* the longest time from one pass to the next in SpecMenu
LongestMenuStep == CHOOSE d \in MenuSteps : \A e \in MenuSteps : e <= d

\* C19: the menu does not outlast a button left up: once every pass has
\* read HIGH for MENUE_SELECT_DURATION plus the 50 ms window (and the two
\* passes it takes to see the window and the duration elapse), mode has
\* left MODE_SELECT.
C19_MenuCommitsWhenButtonStaysUp ==
    (mode = MODE_SELECT /\ upSince # -1)
        => millis - upSince <= MENUE_SELECT_DURATION(revision)
                                 + COUNTER_FAKE_BUTTON_RELEASE_DURATION
                                 + 2 * LongestMenuStep

\* C20: a selection is committed only by a pass that comes more than
\* MENUE_SELECT_DURATION after the pass that first read the button up
\* again (the release, or the release of the press that entered the menu),
\* every pass between having read HIGH, however long the press was held.
C20_CommitOnlyAfterButtonUpForDuration ==
    [][Committed =>
         /\ upSince # -1
         /\ millis' - upSince > MENUE_SELECT_DURATION(revision)]_vars

\* a pass entered in a view mode
InView == mode \in {TEMP_HUMIDITY_VIEW, DURATION_BYTES_VIEW}

\* C21: in a view mode a button-down reading enters the menu only when the
\* time since idolingTime is below IDOLING_DURATION and a press and its
\* release have been seen (state 4 on entering the pass); a button-down
\* reading in the quiescent phase (state 2), or past the threshold, sets
\* idolingTime anew and turns the backlight on and leaves mode alone; a
\* button held down from the pass before does neither.
C21_MenuEntryAfterPressReleasePress ==
    [][InView =>
         /\ mode' = MODE_SELECT =>
                /\ upSince' = -1
                /\ state = 4
                /\ millis' - idolingTime < IDOLING_DURATION
         /\ (/\ upSince # -1
             /\ upSince' = -1
             /\ state = 2 \/ millis' - idolingTime >= IDOLING_DURATION) =>
                /\ mode' = mode
                /\ idolingTime' = millis'
                /\ backlight'
         /\ (upSince = -1 /\ upSince' = -1) =>
                /\ mode' = mode
                /\ idolingTime' = idolingTime]_vars

\* a pass entered in mode OFF with the lost-power warning showing
InWarning == mode = OFF /\ state = ERROR_RTC_LOST_POWER /\ pc = "loop"

\* C22: in mode OFF the lost-power warning gives way to
\* READY_FOR_BUTTON_INPUT by itself on the first pass that comes more than
\* RTC_WARNING_DURATION (7000 ms) after logCooldown, the time taken when the
\* warning was entered, and on no earlier pass; a pass that reads the
\* button down during the warning goes to BUTTON_PRESSED at once.
C22_WarningLastsItsDuration ==
    [][InWarning =>
         /\ upSince' = -1 => state' = BUTTON_PRESSED
         /\ upSince' # -1 =>
                state' = IF millis' - logCooldown > RTC_WARNING_DURATION
                         THEN READY_FOR_BUTTON_INPUT
                         ELSE ERROR_RTC_LOST_POWER]_vars

\* the states that a failed start leaves in
ErrorStates ==
    { ERROR_DATAFILE_FAILED, ERROR_TIME_TXT_NOT_FOUND,
      ERROR_TIME_TXT_FORMAT_INCORRECT }

\* the state that goes with each way a start fails
ErrorOf(path) ==
    CASE path \in {"sdfail", "openfail"} -> ERROR_DATAFILE_FAILED
      [] path = "notfound" -> ERROR_TIME_TXT_NOT_FOUND
      [] path \in {"malformed", "ambiguous"} -> ERROR_TIME_TXT_FORMAT_INCORRECT
      [] OTHER -> -1

\* this pass tried to start a session and failed
StartFailed ==
    beginPath' \in {"sdfail", "openfail", "notfound", "malformed", "ambiguous"}

\* what C23 and its amended form share: a failed start leaves mode OFF, no
\* stream open and the state that goes with the failure; from
\* READY_FOR_BUTTON_INPUT a press goes to BUTTON_PRESSED and its release
\* makes the next attempt
FailureThenRetry ==
    /\ StartFailed =>
            /\ mode' = OFF
            /\ ~dataFile'.open
            /\ state' = ErrorOf(beginPath')
    /\ (mode = OFF /\ state = READY_FOR_BUTTON_INPUT /\ upSince' = -1) =>
            state' = BUTTON_PRESSED
    /\ (mode = OFF /\ state = BUTTON_PRESSED /\ upSince' # -1) =>
            beginPath' # "none"

\* C23: after a failed start mode stays OFF with no stream open, the error
\* state is kept by every pass that reads the button up, the first
\* button-down reading moves on from it, and the press and release that
\* follow READY_FOR_BUTTON_INPUT make the next attempt.
C23_ErrorHeldUntilPress ==
    [][/\ FailureThenRetry
       /\ (mode = OFF /\ state \in ErrorStates /\ upSince' # -1) =>
               state' = state
       /\ (mode = OFF /\ state \in ErrorStates /\ upSince' = -1) =>
               state' \in {READY_FOR_BUTTON_INPUT, BUTTON_PRESSED}]_vars

\* C23 amended: the error state lasts until the next pass, which goes to
\* READY_FOR_BUTTON_INPUT if it reads the button up and through it to
\* BUTTON_PRESSED if it reads the button down; the rest as in C23.
C23_ErrorFallsBackOnNextPass ==
    [][/\ FailureThenRetry
       /\ (mode = OFF /\ state \in ErrorStates /\ upSince' # -1) =>
               state' = READY_FOR_BUTTON_INPUT
       /\ (mode = OFF /\ state \in ErrorStates /\ upSince' = -1) =>
               state' = BUTTON_PRESSED]_vars

\* a second attempt has failed on the open
C23_Witness ==
    /\ beginPath = "openfail"
    /\ state = ERROR_DATAFILE_FAILED
    /\ mode = OFF
    /\ ~dataFile.open
    /\ millis >= 4 * PassMillis

\* C24: the scan ends without error, and the clock is adjusted, only on a
\* record of the pattern MM_DD_YY[__X | _HH[__X | _mm[_SS]]]: a record of
\* digits and underscores that stops at MM or MM_DD (the empty record
\* included), ends in an underscore, has a double underscore with no digits
\* after it, or has a field after SS ends in
\* ERROR_TIME_TXT_FORMAT_INCORRECT.
C24_OnlyPatternAccepted ==
    (parseDone /\ ~HasInvalidByte(savedName)) => ValidRecord(savedName)

\* this pass started a session from a recovery record
RecoveryStart == beginPath' = "recovery" /\ mode' # OFF

\* the clock has been set from a recovery record
RecoveredClock == ~rtc.lostPower /\ rtc.base \notin ClockStarts \cup {0}

\* C25: the pass that starts a session from a recovery record leaves in
\* refTime the unixtime of the clock as it stands after rtc.adjust, and the
\* first record of that session carries in timeSeconds the seconds of the
\* clock since that value.
C25_ReferenceEpochAfterRecovery ==
    [][/\ RecoveryStart => refTime' = UnixTime(Now(rtc', millis'))
       /\ (RecoveredClock /\ numBytes = HEADER_BYTES /\ WroteRecord) =>
              timeSeconds' = UnixTime(Now(rtc', millis')) - refTime]_vars

\* mode OFF with the lost-power warning as its state
WarningShown == mode = OFF /\ state = ERROR_RTC_LOST_POWER

\* C26: a pass ends in the lost-power warning without having begun in it
\* only if it is the clock check of a clock that reports lost power; the
\* pass that stops a session from the menu ends in
\* DONE_WORKING_MAY_REMOVEsd, whatever the button reads, and not in the
\* warning.
C26_WarningOnlyFromClockCheck ==
    [][(WarningShown' /\ ~WarningShown) =>
           /\ mode = OFF
           /\ state = CHECK_RTC
           /\ rtc.lostPower]_vars

\* C27: the file that a start from a recovery record opens, under its full
\* name (base, __N suffix if any, extension), was not on the card before
\* that pass: two sessions started from records of the same content get
\* two files.
C27_RecoveryOpensNewFile ==
    [][(beginPath' = "recovery" /\ dataFile'.open) =>
           dataFile'.name \notin files]_vars

\* C28: a pass whose start fails, for whichever reason, leaves the clock as
\* it was (not adjusted, its lost-power flag as before), time.txt on the
\* card and numBytes and numDataPoints unchanged.
C28_FailedStartChangesNothing ==
    [][StartFailed =>
           /\ rtc' = rtc
           /\ timeTxt' = timeTxt
           /\ numBytes' = numBytes
           /\ numDataPoints' = numDataPoints]_vars

\* the clock's unixtime when setup() ran, at millis() = 0
EpochAtSetup == UnixTime(Now(rtc, 0))

\* C29: with a clock that only moves forward, refTime holds the reference
\* unixtime in full and every record written carries in timeSeconds the
\* clock's unixtime minus that reference, in full and not below the value
\* of the record before, also when the session lasts 24 hours and more:
\* nothing wraps at 2^16.
C29_ElapsedSecondsDoNotWrap ==
    [][WroteRecord =>
           /\ refTime = EpochAtSetup
           /\ timeSeconds' = UnixTime(Now(rtc, millis')) - EpochAtSetup
           /\ timeSeconds' >= timeSeconds]_vars

====
